---- MODULE Spec2Model ----
(***************************************************************************)
(* Model of the renovation-finder calculation service.                     *)
(*                                                                         *)
(*   src/myapp/main.py  the current service: unit normalisation, the two   *)
(*                      solve directions, warnings.                        *)
(*   src/app/main.py    the earlier service: input validation, forward     *)
(*                      solve only.                                        *)
(*                                                                         *)
(* Python floats are modelled as rationals (see below).  A                 *)
(* ZeroDivisionError is the value Err, which every arithmetic operator     *)
(* propagates, as the exception propagates through the Python expressions. *)
(* None is the empty tuple.                                                *)
(***************************************************************************)
EXTENDS Integers, Sequences, FiniteSets, TLC

VARIABLES req, served, loc, res, calls, config

vars == <<req, served, loc, res, calls, config>>

(***************************************************************************)
(* Float arithmetic.  A float is <<n, d, k>>: the rational n / d (lowest   *)
(* terms, d > 0) times eps ^ k, where eps is a positive float so small     *)
(* that adding it to a float of ordinary size changes nothing (1 + eps     *)
(* rounds to 1; 1e-14 / 100 / 12 is such a float).  Floats of ordinary     *)
(* size have k = 0 and are computed exactly; a sum keeps the term of the   *)
(* larger magnitude, as the rounded float sum does.  Err is the            *)
(* ZeroDivisionError Python raises for a division by 0.0.                  *)
(***************************************************************************)
None == <<>>

Abs(a) == IF a < 0 THEN -a ELSE a

RECURSIVE GCD(_, _)
GCD(a, b) == IF b = 0 THEN a ELSE GCD(b, a % b)

Err == <<0, 0, 0>>

IsErr(x) == x[2] = 0

\* n / d * eps ^ k in lowest terms; eps ^ 2 underflows to 0.0
Grade(n, d, k) ==
  LET g == GCD(Abs(n), Abs(d))
      s == IF d < 0 THEN -1 ELSE 1
  IN  IF n = 0 \/ k > 1 THEN <<0, 1, 0>> ELSE <<(s * n) \div g, (s * d) \div g, k>>

Rat(n, d) == Grade(n, d, 0)

float(n) == <<n, 1, 0>>

Zero == float(0)

One == float(1)

RNeg(a) == IF IsErr(a) THEN Err ELSE <<-a[1], a[2], a[3]>>

RAdd(a, b) ==
  IF IsErr(a) \/ IsErr(b) THEN Err
  ELSE IF a = Zero THEN b
  ELSE IF b = Zero THEN a
  ELSE IF a[3] < b[3] THEN a
  ELSE IF b[3] < a[3] THEN b
  ELSE LET g == GCD(a[2], b[2])
           l == (a[2] \div g) * b[2]
       IN  Grade(a[1] * (l \div a[2]) + b[1] * (l \div b[2]), l, a[3])

RSub(a, b) == RAdd(a, RNeg(b))

RMul(a, b) ==
  IF IsErr(a) \/ IsErr(b) THEN Err
  ELSE LET g1 == GCD(Abs(a[1]), b[2])
           g2 == GCD(Abs(b[1]), a[2])
       IN  Grade((a[1] \div g1) * (b[1] \div g2), (a[2] \div g2) * (b[2] \div g1),
                 a[3] + b[3])

\* a / b: Python raises ZeroDivisionError for a float division by 0.0
RDiv(a, b) ==
  IF IsErr(a) \/ IsErr(b) \/ b[1] = 0 THEN Err
  ELSE RMul(a, IF b[1] < 0 THEN <<-b[2], -b[1], -b[3]>> ELSE <<b[2], b[1], -b[3]>>)

Sign(x) == IF x[1] > 0 THEN 1 ELSE IF x[1] < 0 THEN -1 ELSE 0

\* n / d of a below n / d of b: by the integer parts, then the fractions
QLt(a, b) ==
  LET fa == a[1] \div a[2]
      fb == b[1] \div b[2]
  IN  IF fa # fb THEN fa < fb
      ELSE (a[1] - fa * a[2]) * b[2] < (b[1] - fb * b[2]) * a[2]

\* a < b
RLt(a, b) ==
  IF Sign(a) # Sign(b) THEN Sign(a) < Sign(b)
  ELSE IF Sign(a) = 0 THEN FALSE
  ELSE IF a[3] # b[3] THEN (IF Sign(a) > 0 THEN a[3] > b[3] ELSE a[3] < b[3])
  ELSE QLt(a, b)

\* a <= b
RLe(a, b) == a = b \/ RLt(a, b)

\* max(a, b) of Python: a unless b is greater
RMax(a, b) == IF IsErr(a) \/ IsErr(b) THEN Err ELSE IF RLt(a, b) THEN b ELSE a

RECURSIVE RPow(_, _)
RPow(x, k) == IF k = 0 THEN One ELSE RMul(x, RPow(x, k - 1))

\* x ** e for an integer e; 0.0 ** (negative) raises ZeroDivisionError
Power(x, e) == IF e >= 0 THEN RPow(x, e) ELSE RDiv(One, RPow(x, -e))

\* round(x, digits) with scale = 10 ^ digits: nearest, ties to even
Round(x, scale) ==
  IF IsErr(x) THEN Err
  ELSE IF x[3] > 0 THEN Zero
  ELSE LET ip == x[1] \div x[2]
           w  == (x[1] - ip * x[2]) * scale
           q  == w \div x[2]
           r2 == 2 * (w % x[2])
           up == r2 > x[2] \/ (r2 = x[2] /\ q % 2 = 1)
       IN  Rat(ip * scale + q + (IF up THEN 1 ELSE 0), scale)

(***************************************************************************)
(* Configuration (src/myapp/main.py:20-21, src/app/main.py:16-17).         *)
(***************************************************************************)
FEE_RATE == Rat(8, 100)

TAX_RATE == Rat(10, 100)

\* the module globals calc reads, as assigned when the module is loaded
Globals == [FEE_RATE |-> FEE_RATE, TAX_RATE |-> TAX_RATE]

(***************************************************************************)
(* Calculation utilities.                                                  *)
(***************************************************************************)
pv_annuity(monthly, i, n) ==
  IF n <= 0 THEN Zero
  ELSE IF i = Zero THEN RMul(monthly, float(n))
  ELSE RDiv(RMul(monthly, RSub(One, Power(RAdd(One, i), -n))), i)

every_months == 6

\* a loop test that leaves out an event in the last month
bonus_event_before(m, n) == m < n

\* the test of the while loop of pv_bonuses: m <= n
bonus_event_due(m, n) == m <= n

\* the body of the loop: pv += bonus_per_event / ((1 + i) ** m)
bonus_event_added(pv, bonus_per_event, i, m) ==
  RAdd(pv, RDiv(bonus_per_event, Power(RAdd(One, i), m)))

\* the while loop of pv_bonuses: m is the month of the next bonus event
RECURSIVE pv_bonuses_loop(_, _, _, _, _)
pv_bonuses_loop(bonus_per_event, i, n, m, pv) ==
  IF bonus_event_due(m, n)
  THEN pv_bonuses_loop(bonus_per_event, i, n, m + every_months,
                       bonus_event_added(pv, bonus_per_event, i, m))
  ELSE pv

pv_bonuses(bonus_per_event, i, n) ==
  IF RLe(bonus_per_event, Zero) \/ n <= 0 THEN Zero
  ELSE IF i = Zero THEN RMul(bonus_per_event, float(n \div every_months))
  ELSE pv_bonuses_loop(bonus_per_event, i, n, every_months, Zero)

MonthsPerYear == 12

\* i = rate_percent / 100 / 12
MonthlyRate(rate_percent) == RDiv(RDiv(rate_percent, float(100)), float(MonthsPerYear))

loan_capacity_by_payments(monthly_man, bonus_man, rate_percent, years) ==
  LET n == years * MonthsPerYear
      i == MonthlyRate(rate_percent)
  IN  RAdd(pv_annuity(monthly_man, i, n), pv_bonuses(bonus_man, i, n))

\* a reverse solve that forgets the bonus schedule
monthly_payment_ignoring_bonus(total_loan_man, bonus_man, rate_percent, years) ==
  LET n == years * MonthsPerYear
      i == MonthlyRate(rate_percent)
      pv_for_monthly == RMax(total_loan_man, Zero)
      denom == RSub(One, Power(RAdd(One, i), -n))
  IN  IF n <= 0 THEN Zero
      ELSE IF i = Zero THEN RDiv(pv_for_monthly, float(n))
      ELSE RDiv(RMul(pv_for_monthly, i), denom)

monthly_payment_from_total_loan(total_loan_man, bonus_man, rate_percent, years) ==
  LET n == years * MonthsPerYear
      i == MonthlyRate(rate_percent)
      pv_bonus == pv_bonuses(bonus_man, i, n)
      pv_for_monthly == RMax(RSub(total_loan_man, pv_bonus), Zero)
      denom == RSub(One, Power(RAdd(One, i), -n))
  IN  IF n <= 0 THEN Zero
      ELSE IF IsErr(pv_bonus) THEN Err
      ELSE IF i = Zero THEN RDiv(pv_for_monthly, float(n))
      ELSE RDiv(RMul(pv_for_monthly, i), denom)

RenoPerM2 == 12

RenoBase == 350

full_renovation_cost(area_m2) == float(area_m2 * RenoPerM2 + RenoBase)

solve_purchase_price(total_funds_man, fee_rate) ==
  RMax(RDiv(total_funds_man, RAdd(One, RMax(fee_rate, Zero))), Zero)

YenThreshold == 100000

YenPerMan == 10000

\* a threshold test that leaves the boundary value alone
normalize_above_threshold(x) ==
  IF x = None THEN <<Zero, FALSE>>
  ELSE IF RLt(float(YenThreshold), x) THEN <<RDiv(x, float(YenPerMan)), TRUE>>
  ELSE <<x, FALSE>>

\* a correction by the wrong factor
normalize_by_thousand(x) ==
  IF x = None THEN <<Zero, FALSE>>
  ELSE IF RLe(float(YenThreshold), x) THEN <<RDiv(x, float(1000)), TRUE>>
  ELSE <<x, FALSE>>

\* returns <<value, corrected>>
normalize_man_input(x) ==
  IF x = None THEN <<Zero, FALSE>>
  ELSE IF RLe(float(YenThreshold), x) THEN <<RDiv(x, float(YenPerMan)), TRUE>>
  ELSE <<x, FALSE>>

(***************************************************************************)
(* Requests.  A request is the JSON body the page posts; amounts are in    *)
(* units of 10,000 yen unless the user typed yen.                          *)
(***************************************************************************)
MaxCalls == 2

MAX_YEARS == 50

SelfSet == {float(-100), Rat(601, 2), float(5000000)}

MonthlySet == {None, float(-5), float(0), Rat(21, 2), float(120000)}

TotalLoanSet == {None, float(1), Rat(40001, 20), float(20000000)}

\* a positive rate so small that 1 + i rounds to 1, such as 1e-14
TinyRate == <<1, 1, 1>>

RateSet ==
  {float(-2400), float(-1200), float(-600), float(0), TinyRate, float(1200)}

AreaSet == {-30, 0, 1}

YearsSet == {1, 2, MAX_YEARS + 1}

RenoModeSet == {"full", "manual"}

RenoCostSet == {None, float(-50), Rat(1601, 2), float(8000000)}

BonusSet == {float(0), float(10), float(150000)}

\* Request bodies.  Terms other than one year are paired with the zero rate,
\* which keeps (1 + i) ^ n within the range of the model's integers.
CalcReq ==
  {r \in [self_man : SelfSet, monthly_man : MonthlySet,
          total_loan_input_man : TotalLoanSet, rate_percent : RateSet,
          area_need_m2 : AreaSet, years : YearsSet, reno_mode : RenoModeSet,
          reno_cost_input_man : RenoCostSet, bonus_man : BonusSet] :
     r.years = 1 \/ r.rate_percent = Zero}

\* the field_validator of CalcReq (both services)
check_years(v) == ~(v <= 0 \/ v > MAX_YEARS)

(***************************************************************************)
(* The current service, src/myapp/main.py.                                 *)
(***************************************************************************)
WarnSelf == "self_man"

WarnMonthly == "monthly_man"

WarnTotal == "total_loan_input_man"

WarnBonus == "bonus_man"

WarnReno == "reno_cost_input_man"

Warn(flag, msg) == IF flag THEN <<msg>> ELSE <<>>

\* warnings that report a corrected renovation cost in either mode
calc_warnings_any_mode(w1, w2, w3, w4, full, w5) ==
  Warn(w1, WarnSelf) \o Warn(w2, WarnMonthly) \o Warn(w3, WarnTotal)
    \o Warn(w4, WarnBonus) \o Warn(w5, WarnReno)

\* warning_msgs after the appends of calc, given the corrected flags w1..w5
calc_warnings(w1, w2, w3, w4, full, w5) ==
  Warn(w1, WarnSelf) \o Warn(w2, WarnMonthly) \o Warn(w3, WarnTotal)
    \o Warn(w4, WarnBonus) \o Warn(~full /\ w5, WarnReno)

\* a switch that looks at the total loan input alone
reverse_solve_total_only(total_in, monthly_in) == RLt(Zero, total_in)

\* the test that switches the starting point: total_in > 0 and monthly_in <= 0
reverse_solve(total_in, monthly_in) == RLt(Zero, total_in) /\ RLe(monthly_in, Zero)

\* a handler that waives the fee for whoever is served next
calc_globals_waiving_fee(g) == [g EXCEPT !.FEE_RATE = Zero]

\* the module globals after a statement of calc has run with globals g: calc
\* has no global statement and assigns to neither FEE_RATE nor TAX_RATE
calc_globals(g) == g

\* the locals of calc after unit correction and the renovation cost
\* (lines 316-338), with the module globals g
calc_normalized(r, g) ==
  LET n1 == normalize_man_input(r.self_man)
      n2 == IF r.monthly_man # None THEN normalize_man_input(r.monthly_man)
            ELSE <<Zero, FALSE>>
      n3 == IF r.total_loan_input_man # None
            THEN normalize_man_input(r.total_loan_input_man)
            ELSE <<Zero, FALSE>>
      n4 == normalize_man_input(r.bonus_man)
      \* req.reno_cost_input_man or 0.0
      n5 == normalize_man_input(IF r.reno_cost_input_man = None THEN Zero
                                ELSE r.reno_cost_input_man)
      full == r.reno_mode = "full"
      reno == IF full THEN full_renovation_cost(r.area_need_m2) ELSE n5[1]
  IN  [self_man |-> n1[1], monthly_in |-> n2[1], total_in |-> n3[1],
       bonus_man |-> n4[1], reno |-> reno,
       reno_tax |-> RMul(reno, RAdd(One, g.TAX_RATE)),
       warning_msgs |-> calc_warnings(n1[2], n2[2], n3[2], n4[2], full, n5[2])]

\* the locals l with monthly and total_loan added: the switch of the
\* starting point (lines 341-350)
calc_solved(r, l) ==
  LET reverse    == reverse_solve(l.total_in, l.monthly_in)
      total_loan == IF reverse THEN l.total_in
                    ELSE loan_capacity_by_payments(l.monthly_in, l.bonus_man,
                                                   r.rate_percent, r.years)
      monthly    == IF reverse
                    THEN monthly_payment_from_total_loan(total_loan, l.bonus_man,
                                                         r.rate_percent, r.years)
                    ELSE l.monthly_in
  IN  l @@ [monthly |-> monthly, total_loan |-> total_loan]

\* the locals l with disposable, purch and fee added (lines 352-354), with
\* the module globals g
calc_priced(l, g) ==
  LET disposable == RSub(RAdd(l.self_man, l.total_loan), l.reno_tax)
      purch      == solve_purchase_price(disposable, g.FEE_RATE)
      fee        == RMul(purch, g.FEE_RATE)
  IN  l @@ [disposable |-> disposable, purch |-> purch, fee |-> fee]

\* the local variables of calc at its return statement when the module
\* globals are g throughout
calc_locals_under(r, g) == calc_priced(calc_solved(r, calc_normalized(r, g)), g)

\* the local variables of calc when it reaches its return statement
calc_locals(r) == calc_locals_under(r, config)

\* an uncaught ZeroDivisionError ends the handler without a return value
calc_raises(l) == IsErr(l.monthly) \/ IsErr(l.total_loan)

Raised == [status |-> "raised"]

\* the JSONResponse calc returns
calc_response(l) ==
  [status |-> "ok", ok |-> TRUE,
   monthly_man_out |-> Round(l.monthly, 100),
   total_loan_man |-> Round(l.total_loan, 10),
   reno_cost_man |-> Round(l.reno, 10),
   reno_cost_tax_incl_man |-> Round(l.reno_tax, 10),
   fee_man |-> Round(l.fee, 10),
   purchasable_price_man |-> Round(l.purch, 10),
   warning_text |-> IF l.warning_msgs # <<>> THEN l.warning_msgs ELSE None]

Idle == served = "none"

\* the service waits for a request; MaxCalls bounds the length of a run
Accepting == Idle /\ calls < MaxCalls

\* no call in progress: no request, no locals, no response
Nothing == [status |-> "none"]

Init ==
  /\ req = Nothing
  /\ served = "none"
  /\ loc = Nothing
  /\ res = Nothing
  /\ calls = 0
  /\ config = Globals

\* POST /calc of src/myapp/main.py with a body the request model accepts
calc(r) ==
  /\ check_years(r.years)
  /\ req' = r
  /\ served' = "myapp"
  /\ calls' = calls + 1
  /\ LET l == calc_locals(r)
     IN  IF calc_raises(l)
         THEN loc' = Nothing /\ res' = Raised
         ELSE loc' = l /\ res' = calc_response(l)
  /\ config' = calc_globals(config)

Invalid == [status |-> "invalid"]

\* POST /calc with a body the request model rejects: calc is never entered
reject(r) ==
  /\ ~check_years(r.years)
  /\ req' = r
  /\ served' = "myapp"
  /\ calls' = calls + 1
  /\ loc' = Nothing
  /\ res' = Invalid
  /\ UNCHANGED config

(***************************************************************************)
(* The earlier service, src/app/main.py.  Its request model has no         *)
(* total_loan_input_man (an extra field of the body is ignored) and        *)
(* requires monthly_man.                                                   *)
(***************************************************************************)
\* Request bodies of the earlier service: the fields its page sends, with
\* amounts typed in units of 10,000 yen (it has no unit correction).
AppAmount(x) == x = None \/ RLt(x, float(YenThreshold))

AppCalcReq ==
  {r \in CalcReq :
     /\ r.total_loan_input_man = None
     /\ AppAmount(r.self_man) /\ AppAmount(r.monthly_man)
     /\ AppAmount(r.bonus_man) /\ AppAmount(r.reno_cost_input_man)}

app_request_ok(r) == check_years(r.years) /\ r.monthly_man # None

\* the range check at the head of calc
app_input_error(r) ==
  \/ RLt(r.self_man, Zero)
  \/ RLe(r.monthly_man, Zero)
  \/ RLt(r.rate_percent, Zero)
  \/ r.area_need_m2 <= 0

app_manual_missing(r) == r.reno_mode = "manual" /\ r.reno_cost_input_man = None

Error400 == [status |-> "error400", ok |-> FALSE]

\* the local variables of calc when it reaches its return statement
app_calc_locals(r) ==
  LET total_loan == loan_capacity_by_payments(r.monthly_man, r.bonus_man,
                                              r.rate_percent, r.years)
      reno_cost  == IF r.reno_mode = "full" THEN full_renovation_cost(r.area_need_m2)
                    ELSE r.reno_cost_input_man
      reno_cost_tax_incl == RMul(reno_cost, RAdd(One, TAX_RATE))
      disposable  == RSub(RAdd(r.self_man, total_loan), reno_cost)
      purch_price == solve_purchase_price(disposable, FEE_RATE)
      fee         == RMul(purch_price, FEE_RATE)
  IN  [self_man |-> r.self_man, total_loan |-> total_loan, reno_cost |-> reno_cost,
       reno_cost_tax_incl |-> reno_cost_tax_incl, disposable |-> disposable,
       purch_price |-> purch_price, fee |-> fee]

\* the CalcRes calc returns
app_calc_response(l) ==
  [status |-> "ok", ok |-> TRUE,
   total_loan_man |-> Round(l.total_loan, 10),
   reno_cost_man |-> Round(l.reno_cost, 10),
   reno_cost_tax_incl_man |-> Round(l.reno_cost_tax_incl, 10),
   fee_man |-> Round(l.fee, 10),
   purchasable_price_man |-> Round(l.purch_price, 10)]

\* POST /calc of src/app/main.py with a body the request model accepts
app_calc(r) ==
  /\ app_request_ok(r)
  /\ req' = r
  /\ served' = "app"
  /\ calls' = calls + 1
  /\ IF app_input_error(r) \/ app_manual_missing(r)
     THEN loc' = Nothing /\ res' = Error400
     ELSE LET l == app_calc_locals(r)
          IN  loc' = l /\ res' = app_calc_response(l)
  /\ UNCHANGED config

\* POST /calc of src/app/main.py with a body the request model rejects
app_reject(r) ==
  /\ ~app_request_ok(r)
  /\ req' = r
  /\ served' = "app"
  /\ calls' = calls + 1
  /\ loc' = Nothing
  /\ res' = Invalid
  /\ UNCHANGED config

\* the response is sent; nothing of the call is kept
respond ==
  /\ ~Idle
  /\ req' = Nothing
  /\ served' = "none"
  /\ loc' = Nothing
  /\ res' = Nothing
  /\ UNCHANGED <<calls, config>>

Next ==
  \/ Accepting /\ \E r \in CalcReq : calc(r)
  \/ Accepting /\ \E r \in CalcReq : reject(r)
  \/ Accepting /\ \E r \in AppCalcReq : app_calc(r)
  \/ Accepting /\ \E r \in AppCalcReq : app_reject(r)
  \/ respond

Spec == Init /\ [][Next]_vars

(***************************************************************************)
(* normalize_man_input on its own: applied to an input, then to its own    *)
(* output.                                                                 *)
(***************************************************************************)
PowersOfTen ==
  {1, 10, 100, 1000, 10000, 100000, 1000000, 10000000, 100000000, 1000000000}

\* None, the hundredths around the threshold, and 0, -1, 1, 2 times a power of ten
NormInputs ==
  {None, Zero}
    \cup {Rat(h, 100) : h \in (100 * YenThreshold - 10) .. (100 * YenThreshold + 10)}
    \cup {float(c * p) : c \in {-1, 1, 2}, p \in PowersOfTen}

Normalized(x) ==
  LET n == normalize_man_input(x) IN [value |-> n[1], corrected |-> n[2]]

InitNorm ==
  /\ req \in {[x |-> x] : x \in NormInputs}
  /\ served = "normalize"
  /\ loc = Nothing
  /\ res = Nothing
  /\ calls = 0
  /\ config = Globals

\* res = normalize_man_input(x)
normalize_once ==
  /\ res = Nothing
  /\ res' = Normalized(req.x)
  /\ UNCHANGED <<req, served, loc, calls, config>>

\* loc = normalize_man_input(res.value)
normalize_twice ==
  /\ res # Nothing
  /\ loc = Nothing
  /\ loc' = Normalized(res.value)
  /\ UNCHANGED <<req, served, res, calls, config>>

NextNorm == normalize_once \/ normalize_twice

SpecNorm == InitNorm /\ [][NextNorm]_vars

(***************************************************************************)
(* The two solve directions on their own: a payment is turned into a loan  *)
(* and the loan back into a payment.                                       *)
(***************************************************************************)
RoundTripInputs ==
  {a \in [m : {Zero, Rat(1, 3), float(10), Rat(21, 2)},
          b : {Zero, Rat(7, 2), float(10)},
          r : {Zero, TinyRate, float(600), float(1200), float(2400)},
          y : {1, 2}] :
     a.y = 1 \/ a.r \in {Zero, TinyRate}}

InitRoundTrip ==
  /\ req \in RoundTripInputs
  /\ served = "round_trip"
  /\ loc = Nothing
  /\ res = Nothing
  /\ calls = 0
  /\ config = Globals

\* res = loan_capacity_by_payments(m, b, r, y)
solve_forward ==
  /\ res = Nothing
  /\ res' = [total_loan |-> loan_capacity_by_payments(req.m, req.b, req.r, req.y)]
  /\ UNCHANGED <<req, served, loc, calls, config>>

\* loc = monthly_payment_from_total_loan(res, b, r, y)
solve_reverse ==
  /\ res # Nothing
  /\ loc = Nothing
  /\ loc' = [monthly |-> monthly_payment_from_total_loan(res.total_loan, req.b,
                                                         req.r, req.y)]
  /\ UNCHANGED <<req, served, res, calls, config>>

NextRoundTrip == solve_forward \/ solve_reverse

SpecRoundTrip == InitRoundTrip /\ [][NextRoundTrip]_vars

(***************************************************************************)
(* pv_bonuses on its own, one iteration of its while loop at a time.  req  *)
(* holds the arguments, loc the loop variables m and pv once the loop has  *)
(* been entered, res the value returned (Err when the call raised).        *)
(***************************************************************************)
BonusInputs ==
  [b : {float(-1), Zero, float(1), Rat(7, 2)},
   i : {float(-1), Rat(-1, 2), Zero, TinyRate, Rat(1, 2), float(1)},
   n : {-6, 0, 1, 5, 6, 7, 11, 12, 13, 18}]

InitBonus ==
  /\ req \in BonusInputs
  /\ served = "pv_bonuses"
  /\ loc = Nothing
  /\ res = Nothing
  /\ calls = 0
  /\ config = Globals

\* lines 34-39: the two early returns, or pv = 0.0 and m = every_months
bonus_enter ==
  /\ loc = Nothing
  /\ res = Nothing
  /\ IF RLe(req.b, Zero) \/ req.n <= 0
     THEN res' = [pv |-> Zero] /\ UNCHANGED loc
     ELSE IF req.i = Zero
     THEN res' = [pv |-> RMul(req.b, float(req.n \div every_months))] /\ UNCHANGED loc
     ELSE loc' = [m |-> every_months, pv |-> Zero] /\ UNCHANGED res
  /\ UNCHANGED <<req, served, calls, config>>

\* lines 40-42: one pass of the loop; a ZeroDivisionError ends the call
bonus_iterate ==
  /\ loc # Nothing
  /\ res = Nothing
  /\ bonus_event_due(loc.m, req.n)
  /\ res' = IF IsErr(bonus_event_added(loc.pv, req.b, req.i, loc.m))
            THEN [pv |-> Err] ELSE res
  /\ loc' = IF IsErr(bonus_event_added(loc.pv, req.b, req.i, loc.m))
            THEN loc
            ELSE [m |-> loc.m + every_months,
                  pv |-> bonus_event_added(loc.pv, req.b, req.i, loc.m)]
  /\ UNCHANGED <<req, served, calls, config>>

\* line 43: the loop test fails and pv is returned
bonus_return ==
  /\ loc # Nothing
  /\ res = Nothing
  /\ ~bonus_event_due(loc.m, req.n)
  /\ res' = [pv |-> loc.pv]
  /\ UNCHANGED <<req, served, loc, calls, config>>

NextBonus == bonus_enter \/ bonus_iterate \/ bonus_return

SpecBonus == InitBonus /\ [][NextBonus]_vars

(***************************************************************************)
(* Invocations of calc in flight at the same time.  calc is a plain def    *)
(* endpoint, which the framework runs on a pool of worker threads: every   *)
(* caller has its own request and its own locals; the module globals are   *)
(* the only thing the invocations have in common.  Here req, served, loc   *)
(* and res are functions of the caller, and served[c] is how far the       *)
(* invocation of caller c has got.                                         *)
(***************************************************************************)
NumCallers == 2

Callers == 1 .. NumCallers

\* both directions, a failing reverse solve, both renovation modes, a
\* rescaled bonus (a warning)
StatelessReqs ==
  {r \in [self_man : {Rat(601, 2)}, monthly_man : {None, Rat(21, 2)},
          total_loan_input_man : {Rat(40001, 20)},
          rate_percent : {TinyRate, float(1200)}, area_need_m2 : {1}, years : {1},
          reno_mode : RenoModeSet, reno_cost_input_man : {Rat(1601, 2)},
          bonus_man : {float(10), float(150000)}] :
     /\ r.rate_percent = TinyRate => r.monthly_man = None
     /\ r.bonus_man = float(150000) => r.reno_mode = "manual"}

InitStateless ==
  /\ req = [c \in Callers |-> Nothing]
  /\ served = [c \in Callers |-> "none"]
  /\ loc = [c \in Callers |-> Nothing]
  /\ res = [c \in Callers |-> Nothing]
  /\ calls = 0
  /\ config = Globals

\* caller c posts r; calc runs up to reno_tax (lines 316-338)
calc_enter(c, r) ==
  /\ served[c] = "none"
  /\ calls < MaxCalls
  /\ check_years(r.years)
  /\ req' = [req EXCEPT ![c] = r]
  /\ loc' = [loc EXCEPT ![c] = calc_normalized(r, config)]
  /\ served' = [served EXCEPT ![c] = "normalized"]
  /\ calls' = calls + 1
  /\ config' = calc_globals(config)
  /\ UNCHANGED res

\* the invocation of c chooses the direction and solves (lines 341-350); a
\* ZeroDivisionError ends it
calc_solve(c) ==
  /\ served[c] = "normalized"
  /\ LET l == calc_solved(req[c], loc[c])
     IN  IF calc_raises(l)
         THEN /\ loc' = [loc EXCEPT ![c] = Nothing]
              /\ res' = [res EXCEPT ![c] = Raised]
              /\ served' = [served EXCEPT ![c] = "returned"]
         ELSE /\ loc' = [loc EXCEPT ![c] = l]
              /\ served' = [served EXCEPT ![c] = "solved"]
              /\ UNCHANGED res
  /\ config' = calc_globals(config)
  /\ UNCHANGED <<req, calls>>

\* the invocation of c computes disposable, purch and fee (lines 352-354)
calc_price(c) ==
  /\ served[c] = "solved"
  /\ loc' = [loc EXCEPT ![c] = calc_priced(loc[c], config)]
  /\ served' = [served EXCEPT ![c] = "priced"]
  /\ config' = calc_globals(config)
  /\ UNCHANGED <<req, res, calls>>

\* the invocation of c builds its JSONResponse (lines 356-368)
calc_return(c) ==
  /\ served[c] = "priced"
  /\ res' = [res EXCEPT ![c] = calc_response(loc[c])]
  /\ served' = [served EXCEPT ![c] = "returned"]
  /\ config' = calc_globals(config)
  /\ UNCHANGED <<req, loc, calls>>

\* the response of c is sent; nothing of the invocation is kept
calc_done(c) ==
  /\ served[c] = "returned"
  /\ req' = [req EXCEPT ![c] = Nothing]
  /\ loc' = [loc EXCEPT ![c] = Nothing]
  /\ res' = [res EXCEPT ![c] = Nothing]
  /\ served' = [served EXCEPT ![c] = "none"]
  /\ UNCHANGED <<calls, config>>

NextStateless ==
  \/ \E c \in Callers : \E r \in StatelessReqs : calc_enter(c, r)
  \/ \E c \in Callers : calc_solve(c)
  \/ \E c \in Callers : calc_price(c)
  \/ \E c \in Callers : calc_return(c)
  \/ \E c \in Callers : calc_done(c)

SpecStateless == InitStateless /\ [][NextStateless]_vars

(***************************************************************************)
(* Properties of the services.                                             *)
(***************************************************************************)
RAbs(a) == IF a[1] < 0 THEN RNeg(a) ELSE a

MyOk == served = "myapp" /\ res.status = "ok"

AppOk == served = "app" /\ res.status = "ok"

Answered == served \in {"myapp", "app"}

BadInput ==
  \/ RLt(req.self_man, Zero)
  \/ RLt(req.rate_percent, Zero)
  \/ (req.monthly_man # None /\ RLt(req.monthly_man, Zero))
  \/ req.area_need_m2 <= 0

\* a request within the input contract
InContract ==
  /\ ~BadInput
  /\ (req.reno_cost_input_man = None \/ RLe(Zero, req.reno_cost_input_man))

\* a request field as calc sees it after unit correction (absent counts as 0)
NormIn(x) == IF x = None THEN Zero ELSE normalize_man_input(x)[1]

ReqTotal == NormIn(req.total_loan_input_man)

ReqMonthly == NormIn(req.monthly_man)

ReqBonus == NormIn(req.bonus_man)

ReqReverse == RLt(Zero, ReqTotal) /\ RLe(ReqMonthly, Zero)

ReqForwardLoan ==
  loan_capacity_by_payments(ReqMonthly, ReqBonus, req.rate_percent, req.years)

ReqReverseMonthly ==
  monthly_payment_from_total_loan(ReqTotal, ReqBonus, req.rate_percent, req.years)

\* C1 as stated: the solve direction follows from the unit-normalized inputs
\* alone, and the returned total_loan and monthly_payment_out EQUAL the
\* normalized input and the solved value (reverse: total_loan = normalized
\* total_loan_input, monthly_payment_out = monthly_payment_from_total_loan;
\* otherwise monthly_payment_out = normalized monthly, total_loan =
\* loan_capacity_by_payments).
C1_DirectionExact ==
  MyOk =>
    IF ReqReverse
    THEN res.total_loan_man = ReqTotal /\ res.monthly_man_out = ReqReverseMonthly
    ELSE res.monthly_man_out = ReqMonthly /\ res.total_loan_man = ReqForwardLoan

\* C1 amended: the direction is chosen as stated and calc's total_loan and
\* monthly are those values; what calc returns is total_loan rounded to one
\* decimal place and monthly_payment_out rounded to two.
C1_DirectionRounded ==
  MyOk =>
    IF ReqReverse
    THEN /\ loc.total_loan = ReqTotal
         /\ loc.monthly = ReqReverseMonthly
         /\ res.total_loan_man = Round(ReqTotal, 10)
         /\ res.monthly_man_out = Round(ReqReverseMonthly, 100)
    ELSE /\ loc.monthly = ReqMonthly
         /\ loc.total_loan = ReqForwardLoan
         /\ res.monthly_man_out = Round(ReqMonthly, 100)
         /\ res.total_loan_man = Round(ReqForwardLoan, 10)

\* a reverse solve: total loan input given, monthly absent, a positive
\* payment solved
C1_Witness ==
  /\ MyOk
  /\ InContract
  /\ req.rate_percent = float(1200)
  /\ req.monthly_man = None
  /\ ReqReverse
  /\ RLt(Zero, res.monthly_man_out)
  /\ res.total_loan_man # ReqForwardLoan

ValidationError == res.status \in {"invalid", "error400"}

\* C2: a request with negative self_funds, negative interest rate, negative
\* monthly payment or non-positive required area is answered with a
\* validation error and no result record.
C2_BadInputRejected == (Answered /\ BadInput) => ValidationError

\* C3: in MANUAL mode a request without a manual renovation cost is answered
\* with an error and no result; no default cost is substituted.
C3_ManualCostRequired ==
  (Answered /\ req.reno_mode = "manual" /\ req.reno_cost_input_man = None)
    => ValidationError

\* C4: every result record calc returns has its six monetary outputs
\* non-negative.
C4_NonNegativeOutputs ==
  MyOk =>
    /\ RLe(Zero, res.monthly_man_out)
    /\ RLe(Zero, res.total_loan_man)
    /\ RLe(Zero, res.reno_cost_man)
    /\ RLe(Zero, res.reno_cost_tax_incl_man)
    /\ RLe(Zero, res.fee_man)
    /\ RLe(Zero, res.purchasable_price_man)

\* the locals of either service under common names
LocReno == IF served = "app" THEN loc.reno_cost ELSE loc.reno

LocPurch == IF served = "app" THEN loc.purch_price ELSE loc.purch

\* D = self funds + total loan - tax-inclusive renovation cost
LocD == RSub(RAdd(loc.self_man, loc.total_loan), RMul(LocReno, RAdd(One, TAX_RATE)))

\* C5: before rounding, purchasable_price * (1 + fee_rate) = D when D >= 0,
\* purchasable_price = 0 when D < 0, and fee = purchasable_price * fee_rate.
C5_PriceSolvesDisposable ==
  (MyOk \/ AppOk) =>
    /\ IF RLe(Zero, LocD)
       THEN RMul(LocPurch, RAdd(One, FEE_RATE)) = LocD
       ELSE LocPurch = Zero
    /\ loc.fee = RMul(LocPurch, FEE_RATE)

Rescaled(x) == x # None /\ RLe(float(YenThreshold), x)

FieldOrder == <<WarnSelf, WarnMonthly, WarnTotal, WarnBonus, WarnReno>>

FieldRescaled(f) ==
  \/ f = WarnSelf /\ Rescaled(req.self_man)
  \/ f = WarnMonthly /\ Rescaled(req.monthly_man)
  \/ f = WarnTotal /\ Rescaled(req.total_loan_input_man)
  \/ f = WarnBonus /\ Rescaled(req.bonus_man)
  \/ f = WarnReno /\ req.reno_mode = "manual" /\ Rescaled(req.reno_cost_input_man)

\* C8: the warnings of a result are exactly one message per rescaled field,
\* in the order self funds, monthly payment, total loan input, bonus payment,
\* manual renovation cost; the last only in MANUAL mode; none when no field
\* was rescaled.
C8_WarningsPerField == MyOk => res.warning_text = SelectSeq(FieldOrder, FieldRescaled)

\* FULL mode with an oversized manual cost in the body and another field rescaled
C8_Witness ==
  /\ MyOk
  /\ InContract
  /\ req.reno_mode = "full"
  /\ Rescaled(req.reno_cost_input_man)
  /\ Len(res.warning_text) >= 2

ReqN == req.years * MonthsPerYear

ReqI == MonthlyRate(req.rate_percent)

\* what rounding monthly_payment_out to 2 places and total_loan to 1 place
\* can move the reproduced loan by: 0.005 per payment, discounted, plus 0.05
RoundTripTolerance == RAdd(RAbs(pv_annuity(Rat(1, 200), ReqI, ReqN)), Rat(1, 20))

Reproduced ==
  loan_capacity_by_payments(res.monthly_man_out, ReqBonus, req.rate_percent, req.years)

\* C10 as stated: in the reverse direction the returned monthly_payment_out,
\* fed back through loan_capacity_by_payments, reproduces the returned
\* total_loan within rounding tolerance, for every bonus >= 0.
C10_ReverseReproducesLoan ==
  (MyOk /\ ReqReverse /\ RLe(Zero, ReqBonus))
    => RLe(RAbs(RSub(Reproduced, res.total_loan_man)), RoundTripTolerance)

\* C10 amended: the same, when the present value of the bonus schedule does
\* not exceed the total loan (otherwise the monthly payment is clamped to 0).
C10_ReverseReproducesLoanUnclamped ==
  (MyOk /\ ReqReverse /\ RLe(Zero, ReqBonus)
        /\ RLe(pv_bonuses(ReqBonus, ReqI, ReqN), ReqTotal))
    => RLe(RAbs(RSub(Reproduced, res.total_loan_man)), RoundTripTolerance)

\* a reverse solve with a bonus schedule that the loan covers
C10_Witness ==
  /\ MyOk
  /\ InContract
  /\ req.rate_percent = float(1200)
  /\ ReqReverse
  /\ RLt(Zero, ReqBonus)
  /\ RLe(pv_bonuses(ReqBonus, ReqI, ReqN), ReqTotal)
  /\ RLt(Zero, res.monthly_man_out)

\* calc was entered: the request model accepted the body (calc itself
\* rejects nothing)
ReachedComputation == served = "myapp" /\ res # Invalid

\* C11: for every request that reaches calc's computation, pv_annuity,
\* pv_bonuses, loan_capacity_by_payments, monthly_payment_from_total_loan and
\* solve_purchase_price complete without a division by zero.
C11_CoreNeverRaises == ReachedComputation => res # Raised

\* the same for the requests within the input contract only: violated too,
\* by a positive rate at which 1 + i rounds to 1 in the reverse direction
CoreNeverRaisesInContract == (ReachedComputation /\ InContract) => res # Raised

(***************************************************************************)
(* Properties of normalize_man_input (SpecNorm).                           *)
(***************************************************************************)
Threshold == float(YenThreshold)

Idempotent == loc.value = res.value /\ ~loc.corrected

\* C7 as stated: for every input x, normalizing the value normalize_man_input
\* returned gives that value back with corrected = false.
C7_NormalizeIdempotent == loc # Nothing => Idempotent

\* the least input whose rescaled value reaches the threshold again
RescaleLimit == float(YenThreshold * YenPerMan)

\* C7 amended: the same for every input below 1,000,000,000 (None included),
\* that is whenever the returned value is below 100,000.
C7_NormalizeIdempotentBelowLimit ==
  (loc # Nothing /\ (req.x = None \/ RLt(req.x, RescaleLimit))) =>
    (RLt(res.value, Threshold) /\ Idempotent)

\* a rescaled value has been normalized again
C7_Witness ==
  /\ loc # Nothing
  /\ req.x # None
  /\ RLe(Threshold, req.x)
  /\ RLt(req.x, RescaleLimit)
  /\ res.corrected
  /\ Idempotent

(***************************************************************************)
(* Properties of the two solve directions (SpecRoundTrip).                 *)
(***************************************************************************)
RoundTripI == MonthlyRate(req.r)

\* C9: for m >= 0, b >= 0, i > 0 and n > 0,
\* monthly_payment_from_total_loan(loan_capacity_by_payments(m, b, r, y), b, r, y)
\* is m.
C9_RoundTrip ==
  (loc # Nothing /\ RLe(Zero, req.m) /\ RLe(Zero, req.b) /\ RLt(Zero, RoundTripI)
     /\ req.y > 0)
    => loc.monthly = req.m

\* the round trip returns m at every rate at which 1 + i differs from 1
RoundTripAtOrdinaryRates ==
  (loc # Nothing /\ RoundTripI[3] = 0) => loc.monthly = req.m

(***************************************************************************)
(* Properties of concurrent invocations (SpecStateless).                   *)
(***************************************************************************)
\* what calc returns for r when it runs alone with the globals of startup
calc_alone(r) ==
  LET l == calc_locals_under(r, Globals)
  IN  IF calc_raises(l) THEN Raised ELSE calc_response(l)

\* C12: no invocation of calc changes the configured fee rate or tax rate,
\* and however the invocations interleave, each returns exactly what calc
\* returns for the same input when run alone.
C12_Stateless ==
  /\ config = Globals
  /\ \A c \in Callers : served[c] = "returned" => res[c] = calc_alone(req[c])

\* two invocations in flight at once have both returned, with different
\* results and a fee charged in each
C12_Witness ==
  \E c, d \in Callers :
    /\ c # d
    /\ served[c] = "returned" /\ served[d] = "returned"
    /\ res[c].status = "ok" /\ res[d].status = "ok"
    /\ res[c] # res[d]
    /\ res[c].fee_man # Zero /\ res[d].fee_man # Zero

(***************************************************************************)
(* Properties of pv_bonuses (SpecBonus).                                   *)
(***************************************************************************)
\* the first k bonus events, at months 6, 12, ..., 6 k, each discounted
RECURSIVE DiscountedEvents(_, _, _)
DiscountedEvents(b, i, k) ==
  IF k = 0 THEN Zero
  ELSE RAdd(DiscountedEvents(b, i, k - 1), RDiv(b, Power(RAdd(One, i), 6 * k)))

\* floor(n / 6)
EventCount == req.n \div 6

BonusReturned == res # Nothing

\* the value returned is the one stated, and the loop has run once per
\* event: the next month it would have looked at is the first beyond n
BonusValueAsStated ==
  BonusReturned =>
    IF RLe(req.b, Zero) \/ req.n <= 0 THEN res.pv = Zero
    ELSE IF req.i = Zero THEN res.pv = RMul(req.b, float(EventCount))
    ELSE /\ res.pv = DiscountedEvents(req.b, req.i, EventCount)
         /\ ~IsErr(res.pv) => loc.m = 6 * (EventCount + 1)

\* the loop run step by step returns what pv_bonuses returns in one go
BonusLoopAgrees == BonusReturned => res.pv = pv_bonuses(req.b, req.i, req.n)

\* a bound on the statements the call has still to run: the months left to
\* look at, and 0 exactly when the call has ended
BonusStepsLeft ==
  IF BonusReturned THEN 0
  ELSE IF loc = Nothing THEN (IF req.n > 0 THEN req.n ELSE 0) + 8
  ELSE req.n + 7 - loc.m

\* every step of the call brings its end nearer
BonusProgress == BonusStepsLeft' < BonusStepsLeft

\* C13: pv_bonuses(b, i, n) always terminates; for b > 0 and n > 0 it
\* includes exactly the events at months 6, 12, ... <= n, floor(n / 6) of
\* them (one at m = n included, none beyond n): b * floor(n / 6) for i = 0,
\* the sum of b / (1 + i) ^ m over those months for i # 0; for b <= 0 or
\* n <= 0 the result is 0.
C13_BonusEvents ==
  /\ [](BonusValueAsStated /\ (BonusReturned \/ BonusStepsLeft > 0))
  /\ [][BonusProgress]_vars

\* a discounted schedule whose last event falls in the last month
C13_Witness ==
  /\ BonusReturned
  /\ req.n = 12
  /\ req.i = Rat(1, 2)
  /\ RLt(Zero, req.b)
  /\ loc # Nothing
  /\ loc.m = 18
  /\ RLt(DiscountedEvents(req.b, req.i, 1), res.pv)
  /\ RLt(res.pv, req.b)

====
